---- MODULE Spec2Model ----
(***************************************************************************)
(* Model of dcf_simulator (src/src/lib.rs): the cash-flow projection       *)
(* engine (calculate_cashflow), the valuation reducer (calculate_dcf) and  *)
(* the per-frame handler AppState::update with its result cache and its    *)
(* one-shot channels.                                                      *)
(*                                                                         *)
(* Text fields are sequences of one-character strings, so that parsing,    *)
(* character filtering and the contains('y') / contains('t') dispatch are  *)
(* computed from the characters.  An f64 is an exact fraction <<n, d>>     *)
(* with d >= 0 in lowest terms; d = 0 stands for the IEEE specials         *)
(* (<<1,0>> = +inf, <<-1,0>> = -inf, <<0,0>> = NaN).  Rounding and the     *)
(* sign of zero are not modelled.                                          *)
(***************************************************************************)
EXTENDS Integers, Sequences, FiniteSets, TLC

(***************************************************************************)
(* Bounds of the model.                                                    *)
(***************************************************************************)
\* longest row list drawn as an engine input
MaxRows == 2
\* largest end period written in an engine input row
MaxEnd == 2
\* longest cash-flow series drawn as an input of calculate_dcf
MaxSeries == 3
\* longest row list the frame model lets push_row build
MaxUiRows == 2

(***************************************************************************)
(* f64 arithmetic on exact fractions.                                      *)
(***************************************************************************)
Abs(i) == IF i < 0 THEN -i ELSE i

Sgn(i) == IF i < 0 THEN -1 ELSE IF i = 0 THEN 0 ELSE 1

RECURSIVE GCD(_, _)
GCD(a, b) == IF b = 0 THEN a ELSE GCD(b, a % b)

\* the fraction n/d in lowest terms (d = 0 gives an infinity or NaN)
F(n, d) ==
    IF d = 0 THEN <<Sgn(n), 0>>
    ELSE LET g == GCD(Abs(n), Abs(d))
         IN  <<(Sgn(d) * Sgn(n)) * (Abs(n) \div g), Abs(d) \div g>>

FInt(i) == <<i, 1>>

NaN == <<0, 0>>

IsNaN(a) == a = NaN

IsInf(a) == a[2] = 0 /\ a[1] # 0

FNeg(a) == <<-a[1], a[2]>>

FAdd(a, b) ==
    IF IsNaN(a) \/ IsNaN(b) THEN NaN
    ELSE IF IsInf(a) /\ IsInf(b) THEN (IF a = b THEN a ELSE NaN)
    ELSE F(a[1] * b[2] + b[1] * a[2], a[2] * b[2])

FSub(a, b) == FAdd(a, FNeg(b))

FMul(a, b) ==
    IF IsNaN(a) \/ IsNaN(b) THEN NaN
    ELSE F(a[1] * b[1], a[2] * b[2])

FDiv(a, b) ==
    IF IsNaN(a) \/ IsNaN(b) THEN NaN
    ELSE IF IsInf(b) THEN (IF IsInf(a) THEN NaN ELSE FInt(0))
    ELSE IF b[1] = 0 THEN <<Sgn(a[1]), 0>>
    ELSE F(a[1] * b[2] * Sgn(b[1]), a[2] * Abs(b[1]))

\* a > b on f64 (false whenever a NaN is involved)
FGt(a, b) ==
    IF IsNaN(a) \/ IsNaN(b) THEN FALSE
    ELSE IF IsInf(a) \/ IsInf(b) THEN
        IF a = b THEN FALSE
        ELSE IF IsInf(a) THEN a[1] > 0
        ELSE b[1] < 0
    ELSE a[1] * b[2] > b[1] * a[2]

(***************************************************************************)
(* Characters and the parsers of the numeric text fields.                  *)
(***************************************************************************)
Digits == <<"0", "1", "2", "3", "4", "5", "6", "7", "8", "9">>

is_ascii_digit(c) == \E i \in 1..Len(Digits) : Digits[i] = c

DigitVal(c) == (CHOOSE i \in 1..Len(Digits) : Digits[i] = c) - 1

contains(s, c) == \E i \in 1..Len(s) : s[i] = c

RECURSIVE DecimalValue(_)
DecimalValue(s) ==
    IF s = <<>> THEN 0
    ELSE 10 * DecimalValue(SubSeq(s, 1, Len(s) - 1)) + DigitVal(s[Len(s)])

RECURSIVE Pow10(_)
Pow10(k) == IF k = 0 THEN 1 ELSE 10 * Pow10(k - 1)

\* str::parse::<usize>: an optional leading '+', then one or more digits
parse_usize(s) ==
    LET body == IF Len(s) > 0 /\ s[1] = "+" THEN Tail(s) ELSE s
    IN  IF Len(body) > 0 /\ \A i \in 1..Len(body) : is_ascii_digit(body[i])
        THEN [ok |-> TRUE, val |-> DecimalValue(body)]
        ELSE [ok |-> FALSE, val |-> 0]

\* e.end.parse::<usize>().unwrap_or(0)
end_period(s) == LET r == parse_usize(s) IN IF r.ok THEN r.val ELSE 0

\* str::parse::<f64> on the characters the model writes into the float fields
\* (digits, '.', letters): digits with at most one '.', and at least one digit
parse_f64(s) ==
    LET dots == {i \in 1..Len(s) : s[i] = "."}
        digs == SelectSeq(s, is_ascii_digit)
    IN  IF /\ \A i \in 1..Len(s) : is_ascii_digit(s[i]) \/ s[i] = "."
           /\ Cardinality(dots) <= 1
           /\ Len(digs) > 0
        THEN [ok |-> TRUE,
              val |-> F(DecimalValue(digs),
                        IF dots = {} THEN 1
                        ELSE Pow10(Len(s) - (CHOOSE i \in dots : TRUE)))]
        ELSE [ok |-> FALSE, val |-> NaN]

\* s.parse::<f64>().unwrap_or(1.0)
\* a fallback of 0.0 instead of 1.0; C14 tells it apart from f64_or_one
f64_or_zero(s) == LET r == parse_f64(s) IN IF r.ok THEN r.val ELSE FInt(0)

f64_or_one(s) == LET r == parse_f64(s) IN IF r.ok THEN r.val ELSE FInt(1)

\* String::retain(|c| c.is_ascii_digit())
retain_digits(s) == SelectSeq(s, is_ascii_digit)

\* String::retain(|c| retain_float(c, &mut dot_counter)): digits and the first '.'
RECURSIVE retain_float_from(_, _)
retain_float_from(s, dots) ==
    IF s = <<>> THEN <<>>
    ELSE IF Head(s) = "." THEN
        (IF dots + 1 <= 1 THEN <<".">> ELSE <<>>) \o retain_float_from(Tail(s), dots + 1)
    ELSE (IF is_ascii_digit(Head(s)) THEN <<Head(s)>> ELSE <<>>)
            \o retain_float_from(Tail(s), dots)

retain_float(s) == retain_float_from(s, 0)

(***************************************************************************)
(* meval: Expr::from_str, bind, bind2 and eval on the expressions the      *)
(* model writes into a row.  An expression that parses denotes             *)
(* c0 + ct * t; y only ever appears multiplied by 0, so that the solution  *)
(* of dy/dt = c0 + ct * t is the polynomial y0 + c0*x + ct*x*x/2, which    *)
(* the integrator reproduces.                                              *)
(***************************************************************************)
ExprConst == <<"5">>
ExprEmpty == <<>>
ExprParen == <<"(">>
ExprUnknown == <<"x">>
ExprTime == <<"2", "*", "t">>
ExprTimeBad == <<"t", "(">>
ExprTimeUnknown == <<"t", "+", "x">>
ExprOdeZero == <<"0", "*", "y">>
ExprOdeOne == <<"1", "+", "0", "*", "y">>
ExprOdeTime == <<"t", "+", "0", "*", "y">>
ExprOdeBad == <<"y", "(">>
ExprOdeUnknown == <<"y", "+", "x">>

Meval(s) ==
    CASE s = ExprConst       -> [parsed |-> TRUE, free |-> {}, c0 |-> 5, ct |-> 0]
      [] s = ExprUnknown     -> [parsed |-> TRUE, free |-> {"x"}, c0 |-> 0, ct |-> 0]
      [] s = ExprTime        -> [parsed |-> TRUE, free |-> {"t"}, c0 |-> 0, ct |-> 2]
      [] s = ExprTimeUnknown -> [parsed |-> TRUE, free |-> {"t", "x"}, c0 |-> 0, ct |-> 1]
      [] s = ExprOdeZero     -> [parsed |-> TRUE, free |-> {"y"}, c0 |-> 0, ct |-> 0]
      [] s = ExprOdeOne      -> [parsed |-> TRUE, free |-> {"y"}, c0 |-> 1, ct |-> 0]
      [] s = ExprOdeTime     -> [parsed |-> TRUE, free |-> {"t", "y"}, c0 |-> 0, ct |-> 1]
      [] s = ExprOdeUnknown  -> [parsed |-> TRUE, free |-> {"y", "x"}, c0 |-> 0, ct |-> 0]
      [] OTHER               -> [parsed |-> FALSE, free |-> {}, c0 |-> 0, ct |-> 0]

\* Expr::from_str(&e.expr) is Ok
from_str_ok(s) == Meval(s).parsed

\* t.bind2("t", "y") is Ok: every variable of the expression is t or y
bind2_ok(s) == Meval(s).free \subseteq {"t", "y"}

\* expr.bind("t") is Ok
bind_ok(s) == Meval(s).free \subseteq {"t"}

\* expr.eval() is Ok
eval_ok(s) == Meval(s).free = {}

\* the bound function at time t
ExprAt(s, t) == FAdd(FInt(Meval(s).c0), FMul(FInt(Meval(s).ct), t))

\* the solution of dy/dt = c0 + ct * t, y(0) = y0, at time x
OdeSolution(s, y0, x) ==
    FAdd(y0, FAdd(FMul(FInt(Meval(s).c0), x),
                  FMul(F(Meval(s).ct, 2), FMul(x, x))))

(***************************************************************************)
(* ode_solvers::Dopri5 with dense output: new(f, 0, x_end, dx, y0, ..),    *)
(* integrate(), x_out(), y_out().  The output times are 0, dx, 2dx, ...    *)
(* up to x_end.  dx = 0 never advances the output time, so integrate()     *)
(* does not return.  For x_end = 0 the integrator either reports a step    *)
(* size underflow or accepts one step of size 0 and outputs the single     *)
(* time 0: zero_span_err says which.                                       *)
(***************************************************************************)
Dopri5(s, x_end, dx, y0, zero_span_err) ==
    IF x_end = 0 /\ zero_span_err THEN [res |-> "Err", x_out |-> <<>>, y_out |-> <<>>]
    ELSE IF dx[1] = 0 THEN [res |-> "Hang", x_out |-> <<>>, y_out |-> <<>>]
    ELSE IF x_end = 0 THEN [res |-> "Ok", x_out |-> <<FInt(0)>>, y_out |-> <<NaN>>]
    ELSE LET last == (x_end * dx[2]) \div dx[1]
             xs == [k \in 1..(last + 1) |-> FMul(FInt(k - 1), dx)]
         IN  [res |-> "Ok", x_out |-> xs,
              y_out |-> [k \in 1..(last + 1) |-> OdeSolution(s, y0, xs[k])]]

(***************************************************************************)
(* AppState::calculate_cashflow, one row at a time.  The loop state is     *)
(* output and prev_period; status is "Run" while the loop goes on, "None"  *)
(* after the early return, "Panic" after an index out of bounds and        *)
(* "Hang" when the integrator does not return.  kind and y0 record which   *)
(* strategy handled the row and the initial value given to Dopri5::new.    *)
(***************************************************************************)
RECURSIVE Repeat(_, _)
Repeat(v, n) == IF n <= 0 THEN <<>> ELSE <<v>> \o Repeat(v, n - 1)

StartAcc == [output |-> <<>>, prev_period |-> 0, status |-> "Run",
             kind |-> "Start", y0 |-> <<>>]

\* a zero-fill that also emits the leading sample of an empty output, as the
\* evaluated branches do; C4 tells it apart from ZeroFill
ZeroFillLeading(acc, period) ==
    [acc EXCEPT !.output = (IF acc.output = <<>> THEN <<FInt(0)>> ELSE acc.output)
                            \o Repeat(FInt(0), period - acc.prev_period),
                !.prev_period = period, !.kind = "Zero", !.y0 = <<>>]

\* output.extend(repeat(0.0).take(period - prev_period)); prev_period = period; continue
ZeroFill(acc, period) ==
    [acc EXCEPT !.output = acc.output \o Repeat(FInt(0), period - acc.prev_period),
                !.prev_period = period, !.kind = "Zero", !.y0 = <<>>]

\* one turn of `for (i, &x) in x_out.iter().enumerate()`; lp = [n_counter, out]
ResampleAt(x_out, y_out, step, i, lp) ==
    IF FGt(FSub(x_out[i], FInt(lp.n_counter)), FNeg(step))
    THEN [n_counter |-> lp.n_counter + 1, out |-> Append(lp.out, y_out[i])]
    ELSE lp

\* the turns lo..hi of that loop, in order (split in halves, and reading the
\* counter on entry, to keep the evaluation shallow; the turns and their
\* order are those of the loop, and n_counter is a usize, never negative)
RECURSIVE ResampleRange(_, _, _, _, _, _)
ResampleRange(x_out, y_out, step, lo, hi, lp) ==
    IF lp.n_counter < 0 \/ lo > hi THEN lp
    ELSE IF lo = hi THEN ResampleAt(x_out, y_out, step, lo, lp)
    ELSE LET mid == (lo + hi) \div 2
         IN  ResampleRange(x_out, y_out, step, mid + 1, hi,
                           ResampleRange(x_out, y_out, step, lo, mid, lp))

Resample(x_out, y_out, step, n_counter, out) ==
    ResampleRange(x_out, y_out, step, 1, Len(x_out),
                  [n_counter |-> n_counter, out |-> out]).out

\* an initial value taken from the first sample instead of the last; C6 tells
\* it apart from InitialValue
InitialValueFirst(output) == IF output = <<>> THEN FInt(0) ELSE output[1]

\* output.last().cloned().unwrap_or(0.0)
InitialValue(output) == IF output = <<>> THEN FInt(0) ELSE output[Len(output)]

OdeSegment(acc, e, period, dx, zero_span_err) ==
    IF ~from_str_ok(e.expr) \/ ~bind2_ok(e.expr) THEN ZeroFill(acc, period)
    ELSE LET init == InitialValue(acc.output)
             sol == Dopri5(e.expr, period - acc.prev_period, dx, init, zero_span_err)
         IN  CASE sol.res = "Err" -> [ZeroFill(acc, period) EXCEPT !.y0 = <<init>>]
               [] sol.res = "Hang" -> [acc EXCEPT !.status = "Hang", !.kind = "Ode", !.y0 = <<init>>]
               [] OTHER ->
                    IF Len(sol.x_out) < 2
                    THEN [acc EXCEPT !.status = "Panic", !.kind = "Ode", !.y0 = <<init>>]
                    ELSE [acc EXCEPT
                            !.output = Resample(sol.x_out, sol.y_out,
                                                FSub(sol.x_out[2], sol.x_out[1]),
                                                IF acc.output = <<>> THEN 0 ELSE 1,
                                                acc.output),
                            !.prev_period = period, !.kind = "Ode", !.y0 = <<init>>]

\* a time-dependent segment evaluated at the global period index instead of
\* the time since the start of the segment; C12 tells it apart from TimeSegment
TimeSegmentGlobal(acc, e, period) ==
    IF ~from_str_ok(e.expr) \/ ~bind_ok(e.expr) THEN ZeroFill(acc, period)
    ELSE [acc EXCEPT
            !.output = (IF acc.output = <<>> THEN <<ExprAt(e.expr, FInt(0))>> ELSE acc.output)
                        \o [t \in 1..(period - acc.prev_period) |->
                                ExprAt(e.expr, FInt(acc.prev_period + t))],
            !.prev_period = period, !.kind = "Time", !.y0 = <<>>]

TimeSegment(acc, e, period) ==
    IF ~from_str_ok(e.expr) \/ ~bind_ok(e.expr) THEN ZeroFill(acc, period)
    ELSE [acc EXCEPT
            !.output = (IF acc.output = <<>> THEN <<ExprAt(e.expr, FInt(0))>> ELSE acc.output)
                        \o [t \in 1..(period - acc.prev_period) |-> ExprAt(e.expr, FInt(t))],
            !.prev_period = period, !.kind = "Time", !.y0 = <<>>]

\* a constant segment that emits the leading copy in front of every segment;
\* C11 tells it apart from ConstSegment
ConstSegmentLeading(acc, e, period) ==
    IF ~from_str_ok(e.expr) \/ ~eval_ok(e.expr) THEN ZeroFill(acc, period)
    ELSE LET constant == FInt(Meval(e.expr).c0)
         IN  [acc EXCEPT
                !.output = acc.output \o <<constant>>
                            \o Repeat(constant, period - acc.prev_period),
                !.prev_period = period, !.kind = "Const", !.y0 = <<>>]

ConstSegment(acc, e, period) ==
    IF ~from_str_ok(e.expr) \/ ~eval_ok(e.expr) THEN ZeroFill(acc, period)
    ELSE LET constant == FInt(Meval(e.expr).c0)
         IN  [acc EXCEPT
                !.output = (IF acc.output = <<>> THEN <<constant>> ELSE acc.output)
                            \o Repeat(constant, period - acc.prev_period),
                !.prev_period = period, !.kind = "Const", !.y0 = <<>>]

\* a dispatch that looks for t before y; C13 tells it apart from Classify
ClassifyTimeFirst(expr) ==
    IF contains(expr, "t") THEN "Time"
    ELSE IF contains(expr, "y") THEN "Ode"
    ELSE "Const"

\* if e.expr.contains('y') { .. } else if e.expr.contains('t') { .. } else { .. }
Classify(expr) ==
    IF contains(expr, "y") THEN "Ode"
    ELSE IF contains(expr, "t") THEN "Time"
    ELSE "Const"

\* the body of `for e in self.state.rows.iter()`
RowStep(acc, e, ode_step_size, zero_span_err) ==
    LET period == end_period(e.end)
    IN  IF period < acc.prev_period THEN [acc EXCEPT !.status = "None", !.kind = "Order", !.y0 = <<>>]
        ELSE CASE Classify(e.expr) = "Ode" ->
                    OdeSegment(acc, e, period, f64_or_one(ode_step_size), zero_span_err)
               [] Classify(e.expr) = "Time" -> TimeSegment(acc, e, period)
               [] OTHER -> ConstSegment(acc, e, period)

RECURSIVE CashflowLoop(_, _, _, _, _)
CashflowLoop(acc, rows, i, ode_step_size, zero_span_err) ==
    IF i > Len(rows) \/ acc.status # "Run" THEN acc
    ELSE CashflowLoop(RowStep(acc, rows[i], ode_step_size, zero_span_err),
                      rows, i + 1, ode_step_size, zero_span_err)

\* what the loop state amounts to when the function is left
CashflowResult(acc) ==
    IF acc.status = "Run" THEN [status |-> "Some", series |-> acc.output]
    ELSE [status |-> acc.status, series |-> <<>>]

calculate_cashflow(st, zero_span_err) ==
    CashflowResult(CashflowLoop(StartAcc, st.rows, 1, st.ode_step_size, zero_span_err))

(***************************************************************************)
(* AppState::calculate_dcf.                                                *)
(***************************************************************************)
StartDcf == [discount |-> FInt(1), dcf_sum |-> FInt(0), output |-> <<>>]

\* a loop body whose running sum restarts at every record; C7 tells it apart
\* from DcfStep
DcfStepNoSum(lp, cashflow, rate) ==
    LET dcf_unit == FDiv(cashflow, lp.discount)
    IN  [discount |-> FMul(lp.discount, rate),
         dcf_sum |-> dcf_unit,
         output |-> Append(lp.output, [cashflow |-> cashflow, dcf_unit |-> dcf_unit,
                                       dcf_sum |-> dcf_unit])]

\* a loop body that multiplies the discount factor before it divides, so that
\* period 0 is discounted too; C8 tells it apart from DcfStep
DcfStepDiscountFirst(lp, cashflow, rate) ==
    LET discount == FMul(lp.discount, rate)
        dcf_unit == FDiv(cashflow, discount)
        dcf_sum == FAdd(lp.dcf_sum, dcf_unit)
    IN  [discount |-> discount,
         dcf_sum |-> dcf_sum,
         output |-> Append(lp.output, [cashflow |-> cashflow, dcf_unit |-> dcf_unit,
                                       dcf_sum |-> dcf_sum])]

\* the body of `for &cashflow in cashflow.iter()`; rate is the parsed discount field
DcfStep(lp, cashflow, rate) ==
    LET dcf_unit == FDiv(cashflow, lp.discount)
        dcf_sum == FAdd(lp.dcf_sum, dcf_unit)
    IN  [discount |-> FMul(lp.discount, rate),
         dcf_sum |-> dcf_sum,
         output |-> Append(lp.output, [cashflow |-> cashflow, dcf_unit |-> dcf_unit,
                                       dcf_sum |-> dcf_sum])]

RECURSIVE DcfLoop(_, _, _, _)
DcfLoop(lp, cashflow, i, rate) ==
    IF i > Len(cashflow) THEN lp
    ELSE DcfLoop(DcfStep(lp, cashflow[i], rate), cashflow, i + 1, rate)

calculate_dcf(st, cashflow) ==
    DcfLoop(StartDcf, cashflow, 1, f64_or_one(st.discount)).output

(***************************************************************************)
(* State.                                                                  *)
(*   app     the AppState struct: state (the StateData document),          *)
(*           popup_state, popup_title, popup_msg, pending_popup,           *)
(*           pending_state, cache.  An Option is <<>> (None) or <<v>>.     *)
(*   tasks   the file-dialog futures spawned on wasm32 and not yet         *)
(*           finished, each with the senders it still holds                *)
(*   proc    "Running", or how the process ended ("Panicked", "Hung")      *)
(*   target  the build: "native" or "wasm32"                               *)
(*   edited  whether a text field reported changed() in the last frame     *)
(*   figures the terminal value and the DCF result written under the       *)
(*           table, <<>> when no result is displayed                       *)
(*   input, acc, row_i      one run of calculate_cashflow: the document    *)
(*           it reads, its loop state and the index of the next row        *)
(*   series, dcf_lp, dcf_i  one run of calculate_dcf: its argument, its    *)
(*           loop state and the index of the next sample                   *)
(***************************************************************************)
VARIABLES app, tasks, proc, target, edited, figures, input, acc, row_i, series, dcf_lp, dcf_i

vars == <<app, tasks, proc, target, edited, figures, input, acc, row_i, series, dcf_lp, dcf_i>>

appVars == <<app, tasks, proc, target, edited, figures>>

cashflowVars == <<input, acc, row_i>>

dcfVars == <<series, dcf_lp, dcf_i>>

\* impl Default for StateData
DefaultState ==
    [rows |-> <<>>,
     growth |-> <<"1", ".", "0", "2">>,
     discount |-> <<"1", ".", "0", "3">>,
     ode_step_size |-> <<"0", ".", "0", "1">>,
     use_log_scale |-> FALSE]

\* #[derive(Default)] pub struct AppState
DefaultApp ==
    [state |-> DefaultState,
     popup_state |-> FALSE, popup_title |-> "", popup_msg |-> "",
     pending_popup |-> <<>>, pending_state |-> <<>>,
     cache |-> <<>>]

(***************************************************************************)
(* The projection engine run on its own: every document over the input     *)
(* sets below, one loop iteration per step.                                *)
(***************************************************************************)
RECURSIVE DigitString(_)
DigitString(n) ==
    IF n < 10 THEN <<Digits[n + 1]>>
    ELSE DigitString(n \div 10) \o <<Digits[(n % 10) + 1]>>

\* end fields: unparseable (empty), and the periods 1..MaxEnd
EngineEnds == {<<>>} \cup {DigitString(n) : n \in 1..MaxEnd}

EngineExprs == {ExprConst, ExprEmpty, ExprParen, ExprUnknown,
                ExprTime, ExprTimeBad, ExprTimeUnknown,
                ExprOdeZero, ExprOdeOne, ExprOdeTime, ExprOdeBad, ExprOdeUnknown}

\* ode_step_size fields: unparseable (1.0), 0.5, 2 and 0
EngineSteps == {<<".">>, <<".", "5">>, <<"2">>, <<"0">>}

EngineRows == [end : EngineEnds, expr : EngineExprs]

EngineRowLists == UNION {[1..n -> EngineRows] : n \in 0..MaxRows}

EngineDocs ==
    {[DefaultState EXCEPT !.rows = r, !.ode_step_size = h] :
        r \in EngineRowLists, h \in EngineSteps}

IdleCashflow == input = DefaultState /\ acc = StartAcc /\ row_i = 1

IdleDcf == series = <<>> /\ dcf_lp = StartDcf /\ dcf_i = 1

IdleApp ==
    /\ app = DefaultApp /\ tasks = {} /\ proc = "Running" /\ target = "native"
    /\ edited = FALSE /\ figures = <<>>

InitEngine ==
    /\ input \in EngineDocs
    /\ acc = StartAcc
    /\ row_i = 1
    /\ IdleDcf
    /\ IdleApp

\* one iteration of `for e in self.state.rows.iter()`
CashflowRow ==
    /\ acc.status = "Run"
    /\ row_i <= Len(input.rows)
    /\ \E z \in BOOLEAN :
          acc' = RowStep(acc, input.rows[row_i], input.ode_step_size, z)
    /\ row_i' = row_i + 1
    /\ UNCHANGED <<input, appVars, dcfVars>>

NextEngine == CashflowRow

SpecEngine == InitEngine /\ [][NextEngine]_vars

\* the run of calculate_cashflow has left the function
CashflowDone == acc.status # "Run" \/ row_i > Len(input.rows)

(***************************************************************************)
(* The valuation reducer run on its own: every series over SeriesValues    *)
(* up to MaxSeries samples and every discount field of DcfDiscounts, one   *)
(* loop iteration per step.                                                *)
(***************************************************************************)
SeriesValues == {FInt(0), FInt(5), FInt(-3), F(1, 2)}

\* discount fields: unparseable (1.0), 2, 0.5 and 0
DcfDiscounts == {<<>>, <<"2">>, <<".", "5">>, <<"0">>}

InitDcf ==
    /\ series \in UNION {[1..n -> SeriesValues] : n \in 0..MaxSeries}
    /\ \E d \in DcfDiscounts : input = [DefaultState EXCEPT !.discount = d]
    /\ dcf_lp = StartDcf
    /\ dcf_i = 1
    /\ acc = StartAcc /\ row_i = 1
    /\ IdleApp

\* one iteration of `for &cashflow in cashflow.iter()`
DcfIter ==
    /\ dcf_i <= Len(series)
    /\ dcf_lp' = DcfStep(dcf_lp, series[dcf_i], f64_or_one(input.discount))
    /\ dcf_i' = dcf_i + 1
    /\ UNCHANGED <<series, input, acc, row_i, appVars>>

NextDcf == DcfIter

SpecDcf == InitDcf /\ [][NextDcf]_vars

(***************************************************************************)
(* AppState's methods.  m = [a, t]: the AppState struct and the spawned    *)
(* futures.  A one-shot channel is seen from its receiver: "Empty" (the    *)
(* sender is alive and has sent nothing), "Sent" with the value, or        *)
(* "Closed" (the sender was dropped without sending).                      *)
(***************************************************************************)
EmptyChannel == [st |-> "Empty", val |-> <<>>]

ClosedChannel == [st |-> "Closed", val |-> <<>>]

SentChannel(v) == [st |-> "Sent", val |-> <<v>>]

SavedOk == <<"Successfully Saved", "Successfully saved without any error">>

SaveError == <<"Error Occurred", "Error while saving: {e}">>

LoadedOk == <<"Successfully Loaded", "Successfully loaded without any error">>

LoadError == <<"Error Occurred", "Error while loading: {e}">>

push_row(a) ==
    [a EXCEPT !.state.rows = Append(@, [end |-> <<>>, expr |-> <<>>])]

pop_row(a) ==
    [a EXCEPT !.state.rows = IF @ = <<>> THEN <<>> ELSE SubSeq(@, 1, Len(@) - 1)]

show_popup(a, title, msg) ==
    [a EXCEPT !.popup_state = TRUE, !.popup_title = title, !.popup_msg = msg]

close_popup(a) == [a EXCEPT !.popup_state = FALSE]

\* the futures once the popup receiver (drop_popup) or the state receiver
\* (drop_state) they were paired with is gone: they run on, and tx_popup and
\* tx_state say which of their sends can still be received
DropReceivers(t, drop_popup, drop_state) ==
    {[k EXCEPT !.tx_popup = @ /\ ~drop_popup, !.tx_state = @ /\ ~drop_state] : k \in t}

\* what the save dialog and the write come to
SaveOutcomes == {"Cancel", "Ok", "Err"}

\* the popup channel once a save has run to its end
SaveChannel(outcome) ==
    CASE outcome = "Ok" -> SentChannel(SavedOk)
      [] outcome = "Err" -> SentChannel(SaveError)
      [] OTHER -> ClosedChannel

\* native: the dialog and the write run inside the call; wasm32: they are spawned
save_file(m, tgt, outcome) ==
    IF tgt = "native"
    THEN [a |-> [m.a EXCEPT !.pending_popup = <<SaveChannel(outcome)>>],
          t |-> DropReceivers(m.t, TRUE, FALSE)]
    ELSE [a |-> [m.a EXCEPT !.pending_popup = <<EmptyChannel>>],
          t |-> DropReceivers(m.t, TRUE, FALSE)
                    \cup {[kind |-> "save", tx_popup |-> TRUE, tx_state |-> FALSE]}]

\* the documents a picked file may hold
LoadableDocs ==
    {[DefaultState EXCEPT !.rows = <<[end |-> <<"2">>, expr |-> ExprOdeOne],
                                     [end |-> <<"1">>, expr |-> ExprConst]>>,
                          !.ode_step_size = <<"2">>]}

\* what the open dialog, the read and the parse come to: cancelled, a read
\* error (native only), a parse error, or a document
LoadOutcomes(tgt) ==
    {[res |-> "Cancel", doc |-> <<>>], [res |-> "ParseErr", doc |-> <<>>]}
        \cup (IF tgt = "native" THEN {[res |-> "ReadErr", doc |-> <<>>]} ELSE {})
        \cup {[res |-> "Ok", doc |-> <<d>>] : d \in LoadableDocs}

LoadPopupChannel(outcome) ==
    CASE outcome.res = "Ok" -> SentChannel(LoadedOk)
      [] outcome.res = "Cancel" -> ClosedChannel
      [] OTHER -> SentChannel(LoadError)

LoadStateChannel(outcome) ==
    IF outcome.res = "Ok" THEN SentChannel(outcome.doc[1]) ELSE ClosedChannel

load_file(m, tgt, outcome) ==
    IF tgt = "native"
    THEN [a |-> [m.a EXCEPT !.pending_popup = <<LoadPopupChannel(outcome)>>,
                            !.pending_state = <<LoadStateChannel(outcome)>>],
          t |-> DropReceivers(m.t, TRUE, TRUE)]
    ELSE [a |-> [m.a EXCEPT !.pending_popup = <<EmptyChannel>>,
                            !.pending_state = <<EmptyChannel>>],
          t |-> DropReceivers(m.t, TRUE, TRUE)
                    \cup {[kind |-> "load", tx_popup |-> TRUE, tx_state |-> TRUE]}]

(***************************************************************************)
(* AppState::update, in the order of its statements.                       *)
(***************************************************************************)
\* if let Some(rx) = &mut self.pending_popup { .. try_recv() .. }
PollPopup(m) ==
    IF m.a.pending_popup = <<>> THEN m
    ELSE LET ch == m.a.pending_popup[1]
             shown == IF ch.st = "Sent"
                      THEN show_popup(m.a, ch.val[1][1], ch.val[1][2])
                      ELSE m.a
         IN  [a |-> [shown EXCEPT !.pending_popup = <<>>],
              t |-> DropReceivers(m.t, TRUE, FALSE)]

\* a poll that falls back to the default document when the sender was
\* dropped without sending; C21 tells it apart from PollState
PollStateResetting(m) ==
    IF m.a.pending_state = <<>> THEN m
    ELSE LET ch == m.a.pending_state[1]
             loaded == CASE ch.st = "Sent" -> [m.a EXCEPT !.state = ch.val[1]]
                         [] ch.st = "Closed" -> [m.a EXCEPT !.state = DefaultState]
                         [] OTHER -> m.a
         IN  [a |-> [loaded EXCEPT !.pending_state = <<>>, !.cache = <<>>],
              t |-> DropReceivers(m.t, FALSE, TRUE)]

\* if let Some(rx) = &mut self.pending_state { .. try_recv() .. }
PollState(m) ==
    IF m.a.pending_state = <<>> THEN m
    ELSE LET ch == m.a.pending_state[1]
             loaded == IF ch.st = "Sent" THEN [m.a EXCEPT !.state = ch.val[1]] ELSE m.a
         IN  [a |-> [loaded EXCEPT !.pending_state = <<>>, !.cache = <<>>],
              t |-> DropReceivers(m.t, FALSE, TRUE)]

\* the key checks A, D, S, L and the buttons Add, Delete, Save, Load
Command(m, c, tgt, dlg) ==
    CASE c = "push" -> [m EXCEPT !.a = push_row(m.a)]
      [] c = "pop" -> [m EXCEPT !.a = pop_row(m.a)]
      [] c = "save" -> save_file(m, tgt, dlg.save)
      [] c = "load" -> load_file(m, tgt, dlg.load)
      [] OTHER -> m

\* text edits of which the end-period edit leaves the cache in place; C9
\* tells it apart from Edit
EditKeepingCache(a, e) ==
    CASE e.f = "end" ->
            [a EXCEPT !.state.rows[e.i].end = retain_digits(e.s)]
      [] e.f = "expr" ->
            [a EXCEPT !.cache = <<>>, !.state.rows[e.i].expr = e.s]
      [] e.f = "growth" ->
            [a EXCEPT !.cache = <<>>, !.state.growth = retain_float(e.s)]
      [] e.f = "discount" ->
            [a EXCEPT !.cache = <<>>, !.state.discount = retain_float(e.s)]
      [] e.f = "step" ->
            [a EXCEPT !.cache = <<>>, !.state.ode_step_size = retain_float(e.s)]
      [] OTHER -> a

\* the text edits: the field takes the typed text, the cache is cleared and
\* the field is filtered
Edit(a, e) ==
    CASE e.f = "end" ->
            [a EXCEPT !.cache = <<>>, !.state.rows[e.i].end = retain_digits(e.s)]
      [] e.f = "expr" ->
            [a EXCEPT !.cache = <<>>, !.state.rows[e.i].expr = e.s]
      [] e.f = "growth" ->
            [a EXCEPT !.cache = <<>>, !.state.growth = retain_float(e.s)]
      [] e.f = "discount" ->
            [a EXCEPT !.cache = <<>>, !.state.discount = retain_float(e.s)]
      [] e.f = "step" ->
            [a EXCEPT !.cache = <<>>, !.state.ode_step_size = retain_float(e.s)]
      [] OTHER -> a

\* ui.checkbox(&mut self.state.use_log_scale, "Log Scale")
LogScale(a, toggled) ==
    IF toggled THEN [a EXCEPT !.state.use_log_scale = ~@] ELSE a

\* a recomputation whose result depends on the frame and not on the document
\* alone: in some frames one more sample is cached; C16 tells it apart from
\* FillCache
FillCacheByFrame(a, z) ==
    IF a.cache # <<>> THEN [a |-> a, proc |-> "Running"]
    ELSE LET r == calculate_cashflow(a.state, TRUE)
             cashflow == IF z THEN r.series ELSE Append(r.series, FInt(0))
         IN  CASE r.status = "Some" ->
                    [a |-> [a EXCEPT !.cache = <<[cashflow |-> cashflow,
                                                  dcf_data |-> calculate_dcf(a.state, cashflow)]>>],
                     proc |-> "Running"]
               [] r.status = "None" -> [a |-> a, proc |-> "Running"]
               [] r.status = "Panic" -> [a |-> a, proc |-> "Panicked"]
               [] OTHER -> [a |-> a, proc |-> "Hung"]

\* if self.cache.is_none() { if let Some(cashflow) = self.calculate_cashflow() { .. } }
FillCache(a, z) ==
    IF a.cache # <<>> THEN [a |-> a, proc |-> "Running"]
    ELSE LET r == calculate_cashflow(a.state, z)
         IN  CASE r.status = "Some" ->
                    [a |-> [a EXCEPT !.cache = <<[cashflow |-> r.series,
                                                  dcf_data |-> calculate_dcf(a.state, r.series)]>>],
                     proc |-> "Running"]
               [] r.status = "None" -> [a |-> a, proc |-> "Running"]
               [] r.status = "Panic" -> [a |-> a, proc |-> "Panicked"]
               [] OTHER -> [a |-> a, proc |-> "Hung"]

\* dcf_data.last().map(|d| (d.cashflow * growth) / (discount - growth)).unwrap_or(0.0)
\* but without the multiplication by the growth; C15 tells it apart from TerminalValue
TerminalValueNoGrowth(st, dcf_data) ==
    IF dcf_data = <<>> THEN FInt(0)
    ELSE FDiv(dcf_data[Len(dcf_data)].cashflow,
              FSub(f64_or_one(st.discount), f64_or_one(st.growth)))

\* let terminal_value = dcf_data.last().map(|d| { .. }).unwrap_or(0.0)
TerminalValue(st, dcf_data) ==
    IF dcf_data = <<>> THEN FInt(0)
    ELSE LET growth == f64_or_one(st.growth)
         IN  FDiv(FMul(dcf_data[Len(dcf_data)].cashflow, growth),
                  FSub(f64_or_one(st.discount), growth))

\* terminal_value + dcf_data.last().map(|d| d.dcf_sum).unwrap_or(0.0)
DcfResult(st, dcf_data) ==
    FAdd(TerminalValue(st, dcf_data),
         IF dcf_data = <<>> THEN FInt(0) ELSE dcf_data[Len(dcf_data)].dcf_sum)

\* "Terminal Value: {..}" and "DCF Result: {..}"
Figures(st, dcf_data) ==
    [terminal_value |-> TerminalValue(st, dcf_data), dcf_result |-> DcfResult(st, dcf_data)]

\* if let Some((cashflow, dcf_data)) = &self.cache { .. }
Display(a) == IF a.cache = <<>> THEN <<>> ELSE <<Figures(a.state, a.cache[1].dcf_data)>>

\* if self.popup_state { .. if ui.button("OK").clicked() { self.close_popup(); } }
PopupWindow(a, ok) == IF a.popup_state /\ ok THEN close_popup(a) ELSE a

NoEdit == [f |-> "none", i |-> 0, s |-> <<>>]

NoInput ==
    [key |-> "none", button |-> "none", edit |-> NoEdit, log |-> FALSE, ok |-> FALSE,
     dlg |-> [save |-> "Cancel", load |-> [res |-> "Cancel", doc |-> <<>>]], z |-> TRUE]

\* one frame: in holds what the user did in it (key, button, edit, log, ok),
\* how a dialog opened in it ends on native (dlg), and the integrator's
\* answer to an interval of length 0 (z)
update(a, t, tgt, in) ==
    LET m1 == PollState(PollPopup([a |-> a, t |-> t]))
        m2 == Command(m1, in.key, tgt, in.dlg)
        m3 == Command(m2, in.button, tgt, in.dlg)
        a4 == LogScale(Edit(m3.a, in.edit), in.log)
        f5 == FillCache(a4, in.z)
    IN  [a |-> IF f5.proc = "Running" THEN PopupWindow(f5.a, in.ok) ELSE f5.a,
         t |-> m3.t,
         proc |-> f5.proc]

(***************************************************************************)
(* The recomputation of a frame on its own (if self.cache.is_none() { .. }  *)
(* and the figures under the table): calculate_cashflow row by row, its    *)
(* return, calculate_dcf sample by sample, and the two figures, on         *)
(* documents as a loaded file may hold them, unparseable fields included.  *)
(***************************************************************************)
\* end fields: unparseable (empty, a letter), 1 and 2
RecomputeEnds == {<<>>, <<"x">>, <<"1">>, <<"2">>}

RecomputeExprs == {ExprConst, ExprTime, ExprOdeOne}

\* growth fields: unparseable (1.0), 1 and 2
RecomputeGrowths == {<<".">>, <<"1">>, <<"2">>}

\* discount fields: unparseable (1.0), 2 and 3
RecomputeDiscounts == {<<>>, <<"2">>, <<"3">>}

\* ode_step_size fields: unparseable (1.0), 1 and 0.5
RecomputeSteps == {<<"x">>, <<"1">>, <<".", "5">>}

RecomputeDocs ==
    {[rows |-> r, growth |-> g, discount |-> d, ode_step_size |-> h, use_log_scale |-> FALSE] :
        r \in UNION {[1..n -> [end : RecomputeEnds, expr : RecomputeExprs]] : n \in 0..MaxUiRows},
        g \in RecomputeGrowths, d \in RecomputeDiscounts, h \in RecomputeSteps}

InitRecompute ==
    /\ input \in RecomputeDocs
    /\ acc = StartAcc
    /\ row_i = 1
    /\ IdleDcf
    /\ IdleApp

\* if let Some(cashflow) = self.calculate_cashflow() { let dcf_data = self.calculate_dcf(&cashflow);
CashflowReturn ==
    /\ acc.status = "Run"
    /\ row_i > Len(input.rows)
    /\ acc' = [acc EXCEPT !.status = "Some"]
    /\ series' = acc.output
    /\ UNCHANGED <<input, row_i, dcf_lp, dcf_i, appVars>>

\* one iteration of calculate_dcf on the series that was returned
RecomputeDcfIter == acc.status = "Some" /\ DcfIter

\* the terminal value and the DCF result are written under the table
ShowFigures ==
    /\ acc.status = "Some"
    /\ dcf_i > Len(series)
    /\ figures = <<>>
    /\ figures' = <<Figures(input, dcf_lp.output)>>
    /\ UNCHANGED <<app, tasks, proc, target, edited, cashflowVars, dcfVars>>

NextRecompute ==
    \/ CashflowRow
    \/ CashflowReturn
    \/ RecomputeDcfIter
    \/ ShowFigures

SpecRecompute == InitRecompute /\ [][NextRecompute]_vars

(***************************************************************************)
(* The application: frames of update, each with at most one user event,    *)
(* and on wasm32 the spawned dialog futures finishing between frames.      *)
(***************************************************************************)
\* texts typed into the fields (before the field's filter runs)
TypedEnds == {<<"2", "x">>, <<"x">>}

TypedExprs == {ExprConst}

TypedGrowths == {<<"1", ".", "0", "2", "x">>}

TypedDiscounts == {<<"2">>}

TypedSteps == {<<"2", "x">>}

\* the edits that change a field's text
Edits(a) ==
    {[f |-> "end", i |-> i, s |-> x] :
        i \in 1..Len(a.state.rows), x \in TypedEnds}
    \cup {[f |-> "expr", i |-> i, s |-> x] :
        i \in 1..Len(a.state.rows), x \in TypedExprs}
    \cup {[f |-> "growth", i |-> 0, s |-> x] : x \in TypedGrowths}
    \cup {[f |-> "discount", i |-> 0, s |-> x] : x \in TypedDiscounts}
    \cup {[f |-> "step", i |-> 0, s |-> x] : x \in TypedSteps}

\* TextEdit::changed(): the typed text differs from the field's
Changes(a, e) ==
    CASE e.f = "end" -> e.s # a.state.rows[e.i].end
      [] e.f = "expr" -> e.s # a.state.rows[e.i].expr
      [] e.f = "growth" -> e.s # a.state.growth
      [] e.f = "discount" -> e.s # a.state.discount
      [] e.f = "step" -> e.s # a.state.ode_step_size
      [] OTHER -> FALSE

Targets == {"native", "wasm32"}

Init ==
    /\ app = DefaultApp
    /\ tasks = {}
    /\ proc = "Running"
    /\ target \in Targets
    /\ edited = FALSE
    /\ figures = <<>>
    /\ IdleCashflow
    /\ IdleDcf

\* the answers the integrator may give to an interval of length 0 in a frame
\* on the document st; they are only told apart when a row goes to the solver
ZeroSpanAnswers(st) ==
    IF \E i \in DOMAIN st.rows : contains(st.rows[i].expr, "y") THEN BOOLEAN ELSE {TRUE}

\* the document as it is once the frame has polled its channels
Polled == PollState(PollPopup([a |-> app, t |-> tasks])).a

\* the frame with input in
Frame(in) ==
    /\ proc = "Running"
    /\ \E z \in ZeroSpanAnswers(Polled.state) :
        \E r \in {update(app, tasks, target, [in EXCEPT !.z = z])} :
            /\ app' = r.a
            /\ tasks' = r.t
            /\ proc' = r.proc
            /\ figures' = IF r.proc = "Running" THEN Display(r.a) ELSE <<>>
    /\ edited' = (in.edit # NoEdit)
    /\ UNCHANGED <<target, cashflowVars, dcfVars>>

FrameIdle == Frame(NoInput)

\* Add (button or key A); the model stops adding at MaxUiRows rows
FramePush ==
    /\ Len(Polled.state.rows) < MaxUiRows
    /\ \/ Frame([NoInput EXCEPT !.key = "push"])
       \/ Frame([NoInput EXCEPT !.button = "push"])

\* Delete (button or key D)
FramePop ==
    \/ Frame([NoInput EXCEPT !.key = "pop"])
    \/ Frame([NoInput EXCEPT !.button = "pop"])

\* Save (button or key S); on native the dialog ends inside the frame
FrameSave ==
    \E o \in IF target = "native" THEN SaveOutcomes ELSE {"Cancel"} :
        \/ Frame([NoInput EXCEPT !.key = "save", !.dlg.save = o])
        \/ Frame([NoInput EXCEPT !.button = "save", !.dlg.save = o])

\* Load (button or key L)
FrameLoad ==
    \E o \in IF target = "native" THEN LoadOutcomes(target)
             ELSE {[res |-> "Cancel", doc |-> <<>>]} :
        \/ Frame([NoInput EXCEPT !.key = "load", !.dlg.load = o])
        \/ Frame([NoInput EXCEPT !.button = "load", !.dlg.load = o])

\* one text field is edited; the fields are those of the polled document
FrameEdit ==
    \E e \in Edits(Polled) :
        /\ Changes(Polled, e)
        /\ Frame([NoInput EXCEPT !.edit = e])

FrameLogScale == Frame([NoInput EXCEPT !.log = TRUE])

FramePopupOk ==
    /\ PollPopup([a |-> app, t |-> tasks]).a.popup_state
    /\ Frame([NoInput EXCEPT !.ok = TRUE])

\* wasm32: a spawned save future finishes; its send reaches the receiver the
\* application still holds
SaveTaskDone ==
    /\ proc = "Running"
    /\ \E k \in tasks : \E o \in SaveOutcomes :
          /\ k.kind = "save"
          /\ app' = [app EXCEPT !.pending_popup = <<SaveChannel(o)>>]
          /\ tasks' = tasks \ {k}
    /\ UNCHANGED <<proc, target, edited, figures, cashflowVars, dcfVars>>

\* wasm32: a spawned load future finishes
LoadTaskDone ==
    /\ proc = "Running"
    /\ \E k \in tasks : \E o \in LoadOutcomes(target) :
          /\ k.kind = "load"
          /\ app' = [app EXCEPT
                        !.pending_popup = IF k.tx_popup THEN <<LoadPopupChannel(o)>> ELSE @,
                        !.pending_state = IF k.tx_state THEN <<LoadStateChannel(o)>> ELSE @]
          /\ tasks' = tasks \ {k}
    /\ UNCHANGED <<proc, target, edited, figures, cashflowVars, dcfVars>>

\* the operations on the input document: add, delete, edit, load
Next ==
    \/ FrameIdle
    \/ FramePush
    \/ FramePop
    \/ FrameLoad
    \/ FrameEdit
    \/ LoadTaskDone

Spec == Init /\ [][Next]_vars

(***************************************************************************)
(* Properties of the projection engine (SpecEngine).                       *)
(***************************************************************************)
\* some row's end period is smaller than the end period of the row before it
HasOrderViolation(rows) ==
    \E i \in 2..Len(rows) : end_period(rows[i].end) < end_period(rows[i - 1].end)

\* the loop is about to process a row that passes the ordering check
RowPending ==
    /\ acc.status = "Run"
    /\ row_i <= Len(input.rows)
    /\ end_period(input.rows[row_i].end) >= acc.prev_period

\* the length of the segment of the row the loop is about to process
PendingLength == end_period(input.rows[row_i].end) - acc.prev_period

\* the loop state after the first i rows of the input, for a run that is not
\* cut short by the solver
PrefixAcc(i) ==
    CashflowLoop(StartAcc, SubSeq(input.rows, 1, i), 1, input.ode_step_size, TRUE)

\* the samples row i appended, not counting the leading sample at period 0
Appended(i) ==
    Len(PrefixAcc(i).output) - Len(PrefixAcc(i - 1).output)
    - (IF PrefixAcc(i - 1).output = <<>> /\ PrefixAcc(i).kind # "Zero" /\ PrefixAcc(i).output # <<>>
       THEN 1 ELSE 0)

\* C1: whenever some row's end period is smaller than the end period of the
\* row before it, calculate_cashflow returns None, whatever expressions the
\* rows hold and wherever the violation is.
C1_OrderViolationReturnsNone ==
    (CashflowDone /\ HasOrderViolation(input.rows))
        => CashflowResult(acc).status = "None"

\* C3: in every document whose projection returns a result, each row appends
\* exactly (its end period - the previous row's end period) samples, the
\* leading sample at period 0 not counted (previous end period of the first
\* row: 0).
C3_SegmentLength ==
    (CashflowDone /\ acc.status = "Run")
        => \A i \in 1..Len(input.rows) :
              Appended(i) = end_period(input.rows[i].end)
                            - (IF i = 1 THEN 0 ELSE end_period(input.rows[i - 1].end))

\* expressions that fail to parse, bind or evaluate
FailingExprs ==
    {ExprEmpty, ExprParen, ExprUnknown, ExprTimeBad, ExprTimeUnknown,
     ExprOdeBad, ExprOdeUnknown}

\* the value the next derivative-driven segment would start from
CarryIn(output) == IF output = <<>> THEN FInt(0) ELSE output[Len(output)]

\* C4: a segment of length L whose expression fails to parse, bind or
\* evaluate appends exactly L zeros: the samples of the earlier segments stay
\* as they were, the loop goes on to the later rows, and the carry-in of the
\* next segment is 0, or the last earlier sample when the block is empty.
C4_ZeroFill ==
    [][(RowPending /\ input.rows[row_i].expr \in FailingExprs)
        => /\ acc'.output = acc.output \o Repeat(FInt(0), PendingLength)
           /\ acc'.status = "Run"
           /\ acc'.prev_period = end_period(input.rows[row_i].end)
           /\ row_i' = row_i + 1
           /\ CarryIn(acc'.output) =
                 (IF PendingLength > 0 THEN FInt(0) ELSE CarryIn(acc.output))]_vars

\* a failing segment of length 1 has been zero-filled behind two samples of 5
C4_Witness ==
    /\ acc.kind = "Zero"
    /\ acc.status = "Run"
    /\ acc.output = <<FInt(5), FInt(5), FInt(0)>>
    /\ input.rows[row_i - 1].expr \in FailingExprs

\* C5: when the projection returns a result for a document with at least one
\* row, the series has (end period of the last row + 1) samples.
C5_SeriesLength ==
    (CashflowDone /\ acc.status = "Run" /\ input.rows # <<>>)
        => Len(acc.output) = end_period(input.rows[Len(input.rows)].end) + 1

\* expressions in y that parse and bind
OdeExprs == {ExprOdeZero, ExprOdeOne}

\* C6: the initial value handed to the solver for a derivative-driven segment
\* is the last sample emitted before it, whichever kind of segment emitted
\* it, and 0 when no sample has been emitted; with dy/dt = 0 every sample the
\* segment appends equals that value.
C6_OdeContinuity ==
    [][(RowPending /\ input.rows[row_i].expr \in OdeExprs)
        => /\ acc'.y0 = <<CarryIn(acc.output)>>
           /\ (input.rows[row_i].expr = ExprOdeZero /\ acc'.status = "Run")
                => /\ Len(acc'.output) >= Len(acc.output)
                   /\ SubSeq(acc'.output, 1, Len(acc.output)) = acc.output
                   /\ \A k \in (Len(acc.output) + 1)..Len(acc'.output) :
                         acc'.output[k] = CarryIn(acc.output)]_vars

\* a derivative-driven segment has started from the sample 2 that a
\* time-dependent segment emitted last, after a different first sample
C6_Witness ==
    /\ acc.kind = "Ode"
    /\ acc.status = "Run"
    /\ acc.y0 = <<FInt(2)>>
    /\ acc.output[1] = FInt(0)
    /\ Len(acc.output) > 2

(***************************************************************************)
(* Properties of the valuation reducer (SpecDcf).                          *)
(***************************************************************************)
\* C7: calculate_dcf produces one record per sample in period order, and the
\* cumulative value of each record is the cumulative value of the record
\* before it plus its own discounted value; the first record's cumulative
\* value is its discounted value.
C7_CumulativeSum ==
    /\ Len(dcf_lp.output) = dcf_i - 1
    /\ \A k \in 1..Len(dcf_lp.output) :
          /\ dcf_lp.output[k].cashflow = series[k]
          /\ dcf_lp.output[k].dcf_sum =
                (IF k = 1 THEN dcf_lp.output[k].dcf_unit
                 ELSE FAdd(dcf_lp.output[k - 1].dcf_sum, dcf_lp.output[k].dcf_unit))

\* three records have been produced and the running sum has moved
C7_Witness ==
    /\ dcf_i > Len(series)
    /\ Len(dcf_lp.output) = 3
    /\ dcf_lp.output[2].dcf_sum # dcf_lp.output[2].dcf_unit
    /\ dcf_lp.output[3].dcf_sum # dcf_lp.output[2].dcf_sum

\* r^n by repeated multiplication
RECURSIVE FPow(_, _)
FPow(r, n) == IF n = 0 THEN FInt(1) ELSE FMul(FPow(r, n - 1), r)

\* C8: the discounted value at period i is the sample divided by r^i, r the
\* parsed discount field (1.0 when it does not parse): period 0 is not
\* discounted and discounting starts at period 1.
C8_DiscountPower ==
    LET r == f64_or_one(input.discount)
    IN  /\ dcf_lp.discount = FPow(r, dcf_i - 1)
        /\ \A k \in 1..Len(dcf_lp.output) :
              dcf_lp.output[k].dcf_unit = FDiv(series[k], FPow(r, k - 1))

\* with r = 2 the samples 5, 5, 5 have been discounted to 5, 5/2, 5/4
C8_Witness ==
    /\ input.discount = <<"2">>
    /\ Len(dcf_lp.output) = 3
    /\ dcf_lp.output[1].dcf_unit = FInt(5)
    /\ dcf_lp.output[2].dcf_unit = F(5, 2)
    /\ dcf_lp.output[3].dcf_unit = F(5, 4)

(***************************************************************************)
(* Properties of the cache (Spec).                                         *)
(***************************************************************************)
\* the cache of a is what a recomputation from a's document produces: the
\* pair of series when calculate_cashflow returns one, nothing when it
\* returns None
CacheFresh(a) ==
    \E z \in BOOLEAN :
        LET r == calculate_cashflow(a.state, z)
        IN  \/ /\ r.status = "Some"
               /\ a.cache = <<[cashflow |-> r.series,
                               dcf_data |-> calculate_dcf(a.state, r.series)]>>
            \/ /\ r.status = "None"
               /\ a.cache = <<>>

\* C2: whenever a cached projection is present, it equals what recomputing
\* from the current document would produce, after any sequence of add,
\* delete, edit and load.
C2_CacheCoherent ==
    (proc = "Running" /\ app.cache # <<>>) => CacheFresh(app)

\* C9: in a frame in which the user changes a text field (end period,
\* expression, growth rate, discount rate, solver step) the cache is cleared
\* in that frame, so that what the frame displays is recomputed from the
\* edited document.
C9_EditRecomputes ==
    (proc = "Running" /\ edited) => CacheFresh(app)

\* an edit frame has ended with a recomputed series of three samples
C9_Witness ==
    /\ proc = "Running"
    /\ edited
    /\ app.cache # <<>>
    /\ Len(app.cache[1].cashflow) = 3
    /\ app.cache[1].cashflow[3] = FInt(5)

\* C10: whenever the document holds an ordering violation, the cached
\* projection is unset, so that nothing is displayed.
C10_ViolationShowsNothing ==
    (proc = "Running" /\ HasOrderViolation(app.state.rows)) => app.cache = <<>>

(***************************************************************************)
(* Properties of the evaluation strategies (SpecEngine).                   *)
(***************************************************************************)
\* the samples the row being processed appended behind the output it found
NewSamples == SubSeq(acc'.output, Len(acc.output) + 1, Len(acc'.output))

\* the output the row found is still the front of the output it left
OutputExtended ==
    /\ Len(acc'.output) >= Len(acc.output)
    /\ SubSeq(acc'.output, 1, Len(acc.output)) = acc.output

\* C11: a constant segment whose expression evaluates to c appends
\* (end period - previous end period) copies of c, with one more copy in
\* front exactly when the series was empty before the segment; the single
\* row end=3, expr=5 gives [5, 5, 5, 5].
C11_ConstantSegment ==
    [][(RowPending /\ input.rows[row_i].expr = ExprConst)
        => /\ acc'.status = "Run"
           /\ OutputExtended
           /\ Len(NewSamples) = PendingLength + (IF acc.output = <<>> THEN 1 ELSE 0)
           /\ \A k \in 1..Len(NewSamples) : NewSamples[k] = FInt(5)
           /\ (input.rows = <<[end |-> <<"2">>, expr |-> ExprConst]>>
                 => acc'.output = <<FInt(5), FInt(5), FInt(5)>>)
           /\ (input.rows = <<[end |-> <<"3">>, expr |-> ExprConst]>>
                 => acc'.output = <<FInt(5), FInt(5), FInt(5), FInt(5)>>)]_vars

\* a constant segment of length 1 has appended one 5 behind a zero-filled
\* first segment, without a leading copy
C11_Witness ==
    /\ acc.kind = "Const"
    /\ acc.status = "Run"
    /\ row_i = 3
    /\ input.rows[2].expr = ExprConst
    /\ acc.output = <<FInt(0), FInt(5)>>

\* C12: a time-dependent segment with bound function f appends f(1), ..,
\* f(segment length), t counted from the start of the segment, with f(0) in
\* front exactly when the series was empty before the segment; the single
\* row end=2, expr=2*t gives [0, 2, 4].
C12_TimeSegment ==
    [][(RowPending /\ input.rows[row_i].expr = ExprTime)
        => /\ acc'.status = "Run"
           /\ OutputExtended
           /\ NewSamples =
                 (IF acc.output = <<>> THEN <<FInt(0)>> ELSE <<>>)
                 \o [t \in 1..PendingLength |-> FInt(2 * t)]
           /\ (input.rows = <<[end |-> <<"2">>, expr |-> ExprTime]>>
                 => acc'.output = <<FInt(0), FInt(2), FInt(4)>>)]_vars

\* a time-dependent segment that starts at period 1 has appended f(1) = 2
C12_Witness ==
    /\ acc.kind = "Time"
    /\ acc.status = "Run"
    /\ row_i = 3
    /\ input.rows[2].expr = ExprTime
    /\ acc.output = <<FInt(5), FInt(5), FInt(2)>>

\* the characters of an expression
Chars(expr) == {expr[i] : i \in DOMAIN expr}

\* C13: every segment goes to exactly one strategy by the text of its
\* expression alone: the solver if it contains y (also when it contains t),
\* else the time function if it contains t, else the constant; an
\* expression that fails to parse is classified the same way, zero-filled
\* and never rejected.
C13_Dispatch ==
    [][RowPending
        => LET expr == input.rows[row_i].expr
           IN  /\ acc'.status # "None"
               /\ expr \in FailingExprs => (acc'.kind = "Zero" /\ acc'.status = "Run")
               /\ expr \notin FailingExprs =>
                     /\ "y" \in Chars(expr) => (acc'.y0 # <<>> /\ acc'.kind \in {"Ode", "Zero"})
                     /\ ("y" \notin Chars(expr) /\ "t" \in Chars(expr)) => acc'.kind = "Time"
                     /\ ("y" \notin Chars(expr) /\ "t" \notin Chars(expr)) => acc'.kind = "Const"
               /\ (/\ expr = ExprOdeTime
                   /\ acc.output = <<>>
                   /\ PendingLength = 1
                   /\ input.ode_step_size = <<".", "5">>)
                     => acc'.output = <<FInt(0), F(1, 2)>>]_vars

\* the expression t+0*y, which holds both letters, has been integrated:
\* y(1) = 1/2, where the time function would have given 1
C13_Witness ==
    /\ acc.kind = "Ode"
    /\ acc.status = "Run"
    /\ row_i = 2
    /\ input.rows[1].expr = ExprOdeTime
    /\ acc.output = <<FInt(0), F(1, 2)>>

(***************************************************************************)
(* Properties of the resampling of the integrator output (SpecEngine).     *)
(* With dy/dt = 1 the trajectory is y(x) = y(0) + x, so that a sample      *)
(* tells the output time it was taken at.                                  *)
(***************************************************************************)
\* the row being processed is the expression 1+0*y and its trajectory has
\* been resampled
OdeOneResampled ==
    /\ RowPending
    /\ input.rows[row_i].expr = ExprOdeOne
    /\ acc'.status = "Run"
    /\ acc'.kind = "Ode"

\* the output time the k-th new sample was taken at
SampleTime(k) == FSub(NewSamples[k], CarryIn(acc.output))

\* the integer boundary the k-th new sample stands for
Boundary(k) == k - 1 + (IF acc.output = <<>> THEN 0 ELSE 1)

\* x - n > -step
Passes(x, n, step) == FGt(FSub(x, FInt(n)), FNeg(step))

\* C17: in a derivative-driven segment with a positive output spacing, the
\* sample emitted for the integer boundary n is the trajectory value at the
\* first output time x with x - n > -step, and that time is at or past the
\* boundary (x >= n), never before it.
C17_SampleAtBoundary ==
    [][OdeOneResampled
        => LET step == f64_or_one(input.ode_step_size)
           IN  \A k \in 1..Len(NewSamples) :
                  /\ Passes(SampleTime(k), Boundary(k), step)
                  /\ \A j \in 0..PendingLength :
                        (FGt(SampleTime(k), FMul(FInt(j), step))
                            => ~Passes(FMul(FInt(j), step), Boundary(k), step))
                  /\ ~FGt(FInt(Boundary(k)), SampleTime(k))]_vars

\* C18: a derivative-driven segment emits a sample for the boundary 0 (its
\* initial value) exactly when it is the first segment of the projection;
\* every later one starts counting at 1 and never puts its initial value
\* y(0) into the series again.
C18_LeadingSampleOnlyFirst ==
    [][(OdeOneResampled /\ NewSamples # <<>>)
        => (NewSamples[1] = CarryIn(acc.output) <=> row_i = 1)]_vars

\* C20: for every document with non-decreasing end periods
\* calculate_cashflow completes and returns a series; no combination of end
\* periods, expression kinds and step size makes it abort, an integrator
\* output of fewer than two points included.
C20_NoAbort ==
    (CashflowDone /\ ~HasOrderViolation(input.rows))
        => CashflowResult(acc).status = "Some"

(***************************************************************************)
(* Properties of the numeric fields and of the figures (SpecRecompute).    *)
(***************************************************************************)
\* the texts of the documents that do not parse as a number
UnparseableTexts == {<<>>, <<".">>, <<"x">>}

\* the document with every unparseable numeric field replaced by the text
\* of its fallback: 0 for an end period, 1 for growth, discount and step
WithFallbacks(st) ==
    [st EXCEPT
        !.rows = [i \in DOMAIN @ |->
                    [@[i] EXCEPT !.end = IF @ \in UnparseableTexts THEN <<"0">> ELSE @]],
        !.growth = IF @ \in UnparseableTexts THEN <<"1">> ELSE @,
        !.discount = IF @ \in UnparseableTexts THEN <<"1">> ELSE @,
        !.ode_step_size = IF @ \in UnparseableTexts THEN <<"1">> ELSE @]

\* C14: an unparseable end period counts as 0 and an unparseable growth,
\* discount or step size as 1.0: the computation ends as it does on the
\* document with these values written out (an unparseable end meets the
\* ordering check as 0), and no popup or pending message arises from it.
C14_NumericFallbacks ==
    /\ acc.status \in {"None", "Panic", "Hang"}
          => \E z \in BOOLEAN :
                calculate_cashflow(WithFallbacks(input), z).status = acc.status
    /\ acc.status = "Some"
          => \E z \in BOOLEAN :
                calculate_cashflow(WithFallbacks(input), z) =
                    [status |-> "Some", series |-> series]
    /\ figures # <<>>
          => /\ dcf_lp.output = calculate_dcf(WithFallbacks(input), series)
             /\ figures = <<Figures(WithFallbacks(input), dcf_lp.output)>>
    /\ ~app.popup_state
    /\ app.pending_popup = <<>>

\* a document with an unparseable first end, growth and step and a row for
\* the solver has been computed to the end
C14_Witness ==
    /\ figures # <<>>
    /\ Len(input.rows) = 2
    /\ input.rows[1].end = <<"x">>
    /\ input.growth = <<".">>
    /\ input.ode_step_size = <<"x">>
    /\ series = <<FInt(5), FInt(6), FInt(7)>>
    /\ figures[1].terminal_value = F(7, 2)

\* the value of a growth or discount field of the documents
FieldValue(s) ==
    CASE s = <<"2">> -> FInt(2)
      [] s = <<"3">> -> FInt(3)
      [] OTHER -> FInt(1)

\* C15: for a non-empty series with last cash flow C, growth g and discount
\* rate r (1.0 for a field that does not parse, r different from g) the
\* terminal value displayed is (C * g) / (r - g) and the total displayed is
\* that value plus the last cumulative discounted sum; for an empty series
\* both are 0.
C15_TerminalValue ==
    figures # <<>>
        => LET g == FieldValue(input.growth)
               r == FieldValue(input.discount)
               tv == figures[1].terminal_value
           IN  IF series = <<>>
               THEN tv = FInt(0) /\ figures[1].dcf_result = FInt(0)
               ELSE r # g
                      => /\ ~IsNaN(tv) /\ ~IsInf(tv)
                         /\ FMul(tv, FSub(r, g)) = FMul(series[Len(series)], g)
                         /\ figures[1].dcf_result =
                               FAdd(tv, dcf_lp.output[Len(series)].dcf_sum)

\* for the series 5, 5, 5 with g = 2 and r = 3 the terminal value 10 and the
\* total 10 + 65/9 are displayed
C15_Witness ==
    /\ figures # <<>>
    /\ series = <<FInt(5), FInt(5), FInt(5)>>
    /\ input.growth = <<"2">>
    /\ input.discount = <<"3">>
    /\ figures[1].terminal_value = FInt(10)
    /\ figures[1].dcf_result = F(155, 9)

C19_NoOutcomeLost ==
    \A k \in tasks :
        /\ k.tx_popup /\ app.pending_popup # <<>>
        /\ k.kind = "load" => (k.tx_state /\ app.pending_state # <<>>)

(***************************************************************************)
(* A load that fails (Spec).  A load has failed when its state sender was  *)
(* dropped without sending: the dialog was cancelled, the file could not   *)
(* be read or its content did not parse; the receiver then holds a closed  *)
(* channel until the next frame polls it.                                  *)
(***************************************************************************)
\* C21: a load that fails leaves the document unchanged: when its state
\* channel is closed the document is the one load_file was invoked on, and
\* after the next update, here one without user input, rows, growth,
\* discount, step size and the log-scale flag are still the same and what
\* is displayed is computed from that document.
C21_FailedLoadKeepsDocument ==
    [][/\ app'.pending_state = <<ClosedChannel>> => app'.state = Polled.state
       /\ (proc = "Running" /\ app.pending_state = <<ClosedChannel>> /\ FrameIdle)
            => /\ app'.state = app.state
               /\ app'.pending_state = <<>>
               /\ proc' = "Running" => (CacheFresh(app') /\ figures' = Display(app'))]_vars

\* the error popup of a load that failed is up, the channel has been polled
\* and a document with rows is displayed
C21_Witness ==
    /\ proc = "Running"
    /\ ~edited
    /\ app.popup_state
    /\ app.popup_msg = LoadError[2]
    /\ app.pending_state = <<>>
    /\ app.state.rows # <<>>
    /\ app.cache # <<>>
    /\ figures # <<>>

====
